---- MODULE Spec2Model ----
(***************************************************************************)
(* Model of extension/anchor.go: the anchor extension of goldmark.          *)
(*                                                                         *)
(* The document tree is a sequence of node records, a node's identity is   *)
(* its index.  Byte slices are sequences of byte values (0..255); a nil    *)
(* slice and an empty slice are both <<>>, and a nil map and an empty map  *)
(* are both {}: the code only takes len() of them, ranges over them or     *)
(* writes them, which cannot tell the two apart.                           *)
(***************************************************************************)
EXTENDS Integers, Sequences, FiniteSets, TLC

VARIABLES
    pc,           \* "new", "idle", "walk", "render"
    tree,         \* the document tree: Seq of node records
    transformer,  \* the installed Transformer {Texter, Position, Attributer}
    renderer,     \* the installed Renderer {Position, Unsafe}
    tr,           \* the transform struct of the running pass
    stack,        \* ast.Walk: frames still to visit, [n, enter]
    lastVisit,    \* what the last call of Visit returned
    walkErr,      \* the error ast.Walk returned to Transform
    passes,       \* number of Transform calls that have returned
    rstack,       \* render traversal: frames still to dispatch
    out,          \* the output sink
    calls,        \* the calls of RenderNode in this traversal and what each wrote
    \* history, read by the properties only
    orig,         \* the tree the parser produced
    pre,          \* the tree when the current pass started
    visited,      \* the <<node, enter>> pairs Visit was called with in this pass
    hist,         \* per anchor: heading, pass and policy results at insertion
    hfrom,        \* per heading: length of out after its opening tag
    inner         \* per heading: the bytes emitted between its tags

vars == <<pc, tree, transformer, renderer, tr, stack, lastVisit, walkErr, passes,
          rstack, out, calls, orig, pre, visited, hist,
          hfrom, inner>>

MaxPasses == 2

-----------------------------------------------------------------------------
(* Position *)
After == 0
Before == 1
Positions == {After, Before}

(* ast.WalkStatus *)
WalkStop == "WalkStop"
WalkSkipChildren == "WalkSkipChildren"
WalkContinue == "WalkContinue"

nil == "nil"

-----------------------------------------------------------------------------
(* Byte strings *)
Pilcrow == <<194, 182>>                              \* "¶" in UTF-8
ClassName == <<99, 108, 97, 115, 115>>               \* "class"
AnchorValue == <<97, 110, 99, 104, 111, 114>>        \* "anchor"
OpenA == <<60, 97>>                                  \* "<a"
HrefOpen == <<32, 104, 114, 101, 102, 61, 34, 35>>   \* " href=\"#"
HrefClose == <<34, 62>>                              \* "\">"
CloseA == <<60, 47, 97, 62>>                         \* "</a>"
Space == <<32>>                                      \* " "

RECURSIVE Concat(_)
Concat(ss) == IF ss = <<>> THEN <<>> ELSE Head(ss) \o Concat(Tail(ss))

(* util.EscapeHTML: & < > " are replaced by their entities *)
EscapeByte(c) ==
    CASE c = 38 -> <<38, 97, 109, 112, 59>>          \* &amp;
      [] c = 60 -> <<38, 108, 116, 59>>              \* &lt;
      [] c = 62 -> <<38, 103, 116, 59>>              \* &gt;
      [] c = 34 -> <<38, 113, 117, 111, 116, 59>>    \* &quot;
      [] OTHER -> <<c>>

EscapeHTML(b) == Concat([i \in 1..Len(b) |-> EscapeByte(b[i])])

-----------------------------------------------------------------------------
(* Nodes *)
NoAttr == [ok |-> FALSE, isBytes |-> FALSE, val |-> <<>>]
BytesAttr(b) == [ok |-> TRUE, isBytes |-> TRUE, val |-> b]
StringAttr(b) == [ok |-> TRUE, isBytes |-> FALSE, val |-> b]

MkNode(kind, parent, children, level, idattr, segment) ==
    [kind |-> kind, parent |-> parent, children |-> children, Level |-> level,
     idattr |-> idattr, Segment |-> segment,
     ID |-> <<>>, Value |-> <<>>, attrs |-> <<>>]

(* Node: the anchor node, not yet in the tree *)
Node(id, level, value) ==
    [kind |-> "Anchor", parent |-> 0, children |-> <<>>, Level |-> level,
     idattr |-> NoAttr, Segment |-> <<>>,
     ID |-> id, Value |-> value, attrs |-> <<>>]

IsHeading(t, n) == t[n].kind = "Heading"
IsAnchor(t, n) == t[n].kind = "Anchor"
Headings(t) == {n \in 1..Len(t) : IsHeading(t, n)}
Anchors(t) == {n \in 1..Len(t) : IsAnchor(t, n)}

(* ast.BaseNode *)
ChildCount(t, n) == Len(t[n].children)
FirstChild(t, n) == t[n].children[1]
LastChild(t, n) == t[n].children[Len(t[n].children)]
IndexOf(s, x) == CHOOSE i \in 1..Len(s) : s[i] = x
InsertAt(s, i, x) == SubSeq(s, 1, i - 1) \o <<x>> \o SubSeq(s, i, Len(s))

AppendChild(t, self, v) ==
    [t EXCEPT ![self].children = Append(@, v), ![v].parent = self]
InsertBefore(t, self, v1, insertee) ==
    [t EXCEPT ![self].children = InsertAt(@, IndexOf(@, v1), insertee),
              ![insertee].parent = self]
InsertAfter(t, self, v1, insertee) ==
    [t EXCEPT ![self].children = InsertAt(@, IndexOf(@, v1) + 1, insertee),
              ![insertee].parent = self]

(* SetAttributeString: replaces the value of a known name, appends a new one *)
SetAttributeString(attrs, name, value) ==
    IF \E i \in 1..Len(attrs) : attrs[i].Name = name
    THEN [i \in 1..Len(attrs) |->
            IF attrs[i].Name = name THEN [Name |-> name, Value |-> value] ELSE attrs[i]]
    ELSE Append(attrs, [Name |-> name, Value |-> value])

RECURSIVE SetAll(_, _)
SetAll(attrs, pairs) ==
    IF pairs = <<>> THEN attrs
    ELSE SetAll(SetAttributeString(attrs, Head(pairs).Name, Head(pairs).Value), Tail(pairs))

-----------------------------------------------------------------------------
(* Policies *)
TextTexter(s) == [kind |-> "Text", s |-> s]
LevelTexter == [kind |-> "custom", s |-> <<60, 38>>]     \* a Texter of the caller
NilTexter == [kind |-> nil, s |-> <<>>]
_defaultTexter == TextTexter(Pilcrow)

AttributesOf(m) == [kind |-> "Attributes", m |-> m]
IdAttributer == [kind |-> "custom", m |-> {}]            \* an Attributer of the caller
NilAttributer == [kind |-> nil, m |-> {}]
_defaultAttributer == AttributesOf({[Name |-> ClassName, Value |-> AnchorValue]})

Texters == {NilTexter, TextTexter(<<>>), LevelTexter}
Attributers == {NilAttributer, AttributesOf({}), IdAttributer}

(* Texter.AnchorText: textTexter returns its constant; the caller's Texter
   here suppresses level 1 headers and returns "<&" for the others *)
AnchorText(texter, info) ==
    IF texter.kind = "Text" THEN texter.s
    ELSE IF info.Level = 1 THEN <<>> ELSE texter.s

(* Attributer.AnchorAttributes: Attributes returns itself; the caller's
   Attributer here returns a="<the header's id>", and b="x" too below level 1 *)
AnchorAttributes(attributer, info) ==
    IF attributer.kind = "Attributes" THEN attributer.m
    ELSE IF info.Level = 1 THEN {[Name |-> <<97>>, Value |-> info.ID]}
    ELSE {[Name |-> <<97>>, Value |-> info.ID], [Name |-> <<98>>, Value |-> <<120>>]}

(* the orders in which a range over a map may yield its pairs *)
RangeOrders(m) ==
    {s \in [1..Cardinality(m) -> m] : {s[i] : i \in 1..Cardinality(m)} = m}

-----------------------------------------------------------------------------
(* transform.transform *)
HeaderInfo(t, h) == [Level |-> t[h].Level, ID |-> t[h].idattr.val]

(* faulty variant of transformGuard: the check of the text is missing *)
transformGuardNoText(t, h, x) ==
    /\ t[h].idattr.ok
    /\ t[h].idattr.isBytes

(* faulty variant of transformGuard: a heading that has an anchor is skipped *)
transformGuardOnce(t, h, x) ==
    /\ t[h].idattr.ok
    /\ t[h].idattr.isBytes
    /\ Len(AnchorText(x.Texter, HeaderInfo(t, h))) # 0
    /\ \A i \in 1..Len(t[h].children) : ~IsAnchor(t, t[h].children[i])

(* the early returns of transform: TRUE when an anchor is built *)
transformGuard(t, h, x) ==
    /\ t[h].idattr.ok
    /\ t[h].idattr.isBytes
    /\ Len(AnchorText(x.Texter, HeaderInfo(t, h))) # 0

(* faulty variant of NewAnchor: ID and Value are exchanged *)
NewAnchorSwapped(t, h, x, ord) ==
    [Node(AnchorText(x.Texter, HeaderInfo(t, h)), t[h].Level, t[h].idattr.val)
        EXCEPT !.attrs = SetAll(<<>>, ord)]

(* n := &Node{...} and the range over the Attributer's map, in order ord *)
NewAnchor(t, h, x, ord) ==
    [Node(t[h].idattr.val, t[h].Level, AnchorText(x.Texter, HeaderInfo(t, h)))
        EXCEPT !.attrs = SetAll(<<>>, ord)]

(* faulty variant of PlaceAnchor: the position is ignored *)
PlaceAnchorAlwaysAfter(t, h, n, position) ==
    IF ChildCount(t, h) = 0 THEN AppendChild(t, h, n)
    ELSE InsertAfter(t, h, LastChild(t, h), n)

(* the insertion at the end of transform *)
PlaceAnchor(t, h, n, position) ==
    IF ChildCount(t, h) = 0 THEN AppendChild(t, h, n)
    ELSE IF position = Before THEN InsertBefore(t, h, FirstChild(t, h), n)
    ELSE InsertAfter(t, h, LastChild(t, h), n)

transform(t, h, x, ord) ==
    IF ~transformGuard(t, h, x) THEN t
    ELSE PlaceAnchor(Append(t, NewAnchor(t, h, x, ord)), h, Len(t) + 1, x.Position)

(* the orders the range in transform may take for heading h *)
transformOrders(t, h, x) ==
    IF transformGuard(t, h, x)
    THEN RangeOrders(AnchorAttributes(x.Attributer, HeaderInfo(t, h)))
    ELSE {<<>>}

-----------------------------------------------------------------------------
(* transform.Visit *)
(* faulty variant of VisitReturn: the children of a heading are walked *)
VisitReturnDescend(t, n, enter) == [status |-> WalkContinue, err |-> nil]

(* faulty variant of VisitReturn: a heading without a byte id is an error *)
VisitReturnStrict(t, n, enter) ==
    IF ~enter THEN [status |-> WalkContinue, err |-> nil]
    ELSE IF ~IsHeading(t, n) THEN [status |-> WalkContinue, err |-> nil]
    ELSE IF ~(t[n].idattr.ok /\ t[n].idattr.isBytes)
    THEN [status |-> WalkStop, err |-> "bad id"]
    ELSE [status |-> WalkSkipChildren, err |-> nil]

VisitReturn(t, n, enter) ==
    IF ~enter THEN [status |-> WalkContinue, err |-> nil]
    ELSE IF ~IsHeading(t, n) THEN [status |-> WalkContinue, err |-> nil]
    ELSE [status |-> WalkSkipChildren, err |-> nil]

VisitTree(t, n, enter, x, ord) ==
    IF ~enter THEN t
    ELSE IF ~IsHeading(t, n) THEN t
    ELSE transform(t, n, x, ord)

VisitOrders(t, n, enter, x) ==
    IF enter /\ IsHeading(t, n) THEN transformOrders(t, n, x) ELSE {<<>>}

(* ast.Walk: the frames left after the callback returned res for frame f *)
Frames(t, n) == [i \in 1..Len(t[n].children) |-> [n |-> t[n].children[i], enter |-> TRUE]]
WalkNext(t, stk, res) ==
    LET f == Head(stk) IN
    IF res.err # nil \/ res.status = WalkStop THEN <<>>
    ELSE IF ~f.enter THEN Tail(stk)
    ELSE IF res.status = WalkSkipChildren THEN <<[n |-> f.n, enter |-> FALSE]>> \o Tail(stk)
    ELSE Frames(t, f.n) \o <<[n |-> f.n, enter |-> FALSE]>> \o Tail(stk)

-----------------------------------------------------------------------------
(* The trees of the parser: headings hold inline nodes only *)
IdAttrs == {NoAttr, StringAttr(<<97>>), BytesAttr(<<>>), BytesAttr(<<60, 34>>)}   \* none, "a", [], [<"]

Tree1(a1, a2) ==
    << MkNode("Document", 0, <<2, 3>>, 0, NoAttr, <<>>),
       MkNode("Heading", 1, <<>>, 1, a1, <<>>),
       MkNode("Blockquote", 1, <<4>>, 0, NoAttr, <<>>),
       MkNode("Heading", 3, <<5, 6>>, 2, a2, <<>>),
       MkNode("Text", 4, <<>>, 0, NoAttr, <<97>>),
       MkNode("Text", 4, <<>>, 0, NoAttr, <<38, 32>>) >>

Tree2(a1) ==
    << MkNode("Document", 0, <<2, 4>>, 0, NoAttr, <<>>),
       MkNode("Heading", 1, <<3>>, 2, a1, <<>>),
       MkNode("Text", 2, <<>>, 0, NoAttr, <<98>>),
       MkNode("Paragraph", 1, <<5>>, 0, NoAttr, <<>>),
       MkNode("Text", 4, <<>>, 0, NoAttr, <<99>>) >>

GoodAttr == BytesAttr(<<60, 34>>)
InitTrees ==
    {Tree1(a, GoodAttr) : a \in IdAttrs} \cup {Tree1(GoodAttr, a) : a \in IdAttrs}
        \cup {Tree2(a) : a \in IdAttrs}

NotClosed == [done |-> FALSE, bytes |-> <<>>]
NoVisit == [n |-> 0, enter |-> FALSE, status |-> WalkContinue, err |-> nil]

Init ==
    /\ pc = "new"
    /\ tree \in InitTrees
    /\ orig = tree
    /\ pre = tree
    /\ transformer = [Texter |-> NilTexter, Position |-> After, Attributer |-> NilAttributer]
    /\ renderer = [Position |-> After, Unsafe |-> FALSE]
    /\ tr = [Texter |-> NilTexter, Position |-> After, Attributer |-> NilAttributer]
    /\ stack = <<>>
    /\ lastVisit = NoVisit
    /\ walkErr = nil
    /\ passes = 0
    /\ rstack = <<>>
    /\ out = <<>>
    /\ calls = <<>>
    /\ visited = {}
    /\ hist = <<>>
    /\ hfrom = [n \in 1..Len(tree) |-> 0]
    /\ inner = [n \in 1..Len(tree) |-> NotClosed]

renderVars == <<rstack, out, calls, hfrom, inner>>
walkVars == <<tr, stack, lastVisit, walkErr, passes, pre, visited, hist>>

(* AnchorExtender.Extend: both parts get the extender's Position *)
Extend ==
    /\ pc = "new"
    /\ \E e \in [Texter : Texters, Position : Positions, Attributer : Attributers,
                 Unsafe : BOOLEAN] :
        /\ transformer' = [Texter |-> e.Texter, Position |-> e.Position,
                           Attributer |-> e.Attributer]
        /\ renderer' = [Position |-> e.Position, Unsafe |-> e.Unsafe]
    /\ pc' = "idle"
    /\ UNCHANGED <<tree, orig>>
    /\ UNCHANGED walkVars
    /\ UNCHANGED renderVars

(* a Transformer and a Renderer built by the caller, field by field *)
Install ==
    /\ pc = "new"
    /\ transformer' \in [Texter : Texters, Position : Positions, Attributer : Attributers]
    /\ renderer' \in [Position : Positions, Unsafe : BOOLEAN]
    /\ pc' = "idle"
    /\ UNCHANGED <<tree, orig>>
    /\ UNCHANGED walkVars
    /\ UNCHANGED renderVars

(* Transformer.Transform, up to the call of ast.Walk; the document is
   converted anew, into an empty sink *)
Transform ==
    /\ pc = "idle"
    /\ passes < MaxPasses
    /\ tr' = [Texter |-> IF transformer.Texter = NilTexter THEN _defaultTexter
                         ELSE transformer.Texter,
              Position |-> transformer.Position,
              Attributer |-> IF transformer.Attributer = NilAttributer
                             THEN _defaultAttributer ELSE transformer.Attributer]
    /\ stack' = <<[n |-> 1, enter |-> TRUE]>>
    /\ pre' = tree
    /\ visited' = {}
    /\ lastVisit' = NoVisit
    /\ walkErr' = nil
    /\ pc' = "walk"
    /\ rstack' = <<>>
    /\ out' = <<>>
    /\ calls' = <<>>
    /\ hfrom' = [n \in 1..Len(tree) |-> 0]
    /\ inner' = [n \in 1..Len(tree) |-> NotClosed]
    /\ UNCHANGED <<tree, orig, transformer, renderer, passes, hist>>

(* one call of transform.Visit by ast.Walk *)
Visit ==
    /\ pc = "walk"
    /\ stack # <<>>
    /\ LET f == Head(stack)
           res == VisitReturn(tree, f.n, f.enter)
       IN  \E ord \in VisitOrders(tree, f.n, f.enter, tr) :
             LET t1 == VisitTree(tree, f.n, f.enter, tr, ord) IN
             /\ tree' = t1
             /\ lastVisit' = [n |-> f.n, enter |-> f.enter, status |-> res.status,
                              err |-> res.err]
             /\ walkErr' = res.err
             /\ visited' = visited \cup {<<f.n, f.enter>>}
             /\ hist' = IF Len(t1) > Len(tree)
                        THEN Append(hist, [h |-> f.n, pass |-> passes + 1,
                                 text |-> AnchorText(tr.Texter, HeaderInfo(tree, f.n)),
                                 pairs |-> AnchorAttributes(tr.Attributer, HeaderInfo(tree, f.n))])
                        ELSE hist
             /\ stack' = WalkNext(t1, stack, res)
    /\ UNCHANGED <<pc, orig, transformer, renderer, tr, passes, pre>>
    /\ UNCHANGED renderVars

(* ast.Walk returns and Transform drops its error *)
TransformReturn ==
    /\ pc = "walk"
    /\ stack = <<>>
    /\ passes' = passes + 1
    /\ pc' = "idle"
    /\ UNCHANGED <<tree, orig, transformer, renderer, tr, stack, lastVisit, walkErr,
                   pre, visited, hist>>
    /\ UNCHANGED renderVars

-----------------------------------------------------------------------------
(* html.RenderAttributes: name="escaped value" for every attribute, in order *)
RenderAttributes(attrs) ==
    Concat([i \in 1..Len(attrs) |->
              Space \o attrs[i].Name \o <<61, 34>> \o EscapeHTML(attrs[i].Value) \o <<34>>])

(* Transform: an unset Attributer is the default one *)
Effective(attributer) ==
    IF attributer = NilAttributer THEN _defaultAttributer ELSE attributer

(* faulty variant of AnchorElement: Unsafe also leaves the ID unescaped *)
AnchorElementRawHref(r, node) ==
    OpenA \o RenderAttributes(node.attrs)
          \o HrefOpen \o (IF r.Unsafe THEN node.ID ELSE EscapeHTML(node.ID)) \o HrefClose
          \o (IF r.Unsafe THEN node.Value ELSE EscapeHTML(node.Value))
          \o CloseA

(* faulty variant of AnchorElement: the attributes are asked of the
   Attributer again *)
AnchorElementReconsult(r, node) ==
    LET m == AnchorAttributes(Effective(transformer.Attributer),
                              [Level |-> node.Level, ID |-> node.ID])
    IN  OpenA \o RenderAttributes(CHOOSE ord \in RangeOrders(m) : TRUE)
              \o HrefOpen \o EscapeHTML(node.ID) \o HrefClose
              \o (IF r.Unsafe THEN node.Value ELSE EscapeHTML(node.Value))
              \o CloseA

(* the anchor element RenderNode writes between the position checks and the return *)
AnchorElement(r, node) ==
    OpenA \o RenderAttributes(node.attrs)
          \o HrefOpen \o EscapeHTML(node.ID) \o HrefClose
          \o (IF r.Unsafe THEN node.Value ELSE EscapeHTML(node.Value))
          \o CloseA

(* faulty variant of RenderNode: the entering flag is not compared *)
RenderNodeBothCalls(r, node, entering) ==
    IF Len(node.ID) = 0
    THEN [wrote |-> <<>>, status |-> WalkContinue, err |-> nil]
    ELSE [wrote |-> IF r.Position = Before
                    THEN AnchorElement(r, node) \o Space
                    ELSE Space \o AnchorElement(r, node),
          status |-> WalkContinue, err |-> nil]

(* faulty variant of RenderNode: the space is on the far side *)
RenderNodeSpaceSwapped(r, node, entering) ==
    IF (r.Position = Before) # entering
    THEN [wrote |-> <<>>, status |-> WalkContinue, err |-> nil]
    ELSE IF Len(node.ID) = 0
    THEN [wrote |-> <<>>, status |-> WalkContinue, err |-> nil]
    ELSE [wrote |-> IF r.Position = Before
                    THEN Space \o AnchorElement(r, node)
                    ELSE AnchorElement(r, node) \o Space,
          status |-> WalkContinue, err |-> nil]

(* Renderer.RenderNode: the bytes written, the status and the error *)
RenderNode(r, node, entering) ==
    IF (r.Position = Before) # entering
    THEN [wrote |-> <<>>, status |-> WalkContinue, err |-> nil]
    ELSE IF Len(node.ID) = 0
    THEN [wrote |-> <<>>, status |-> WalkContinue, err |-> nil]
    ELSE [wrote |-> IF r.Position = Before
                    THEN AnchorElement(r, node) \o Space
                    ELSE Space \o AnchorElement(r, node),
          status |-> WalkContinue, err |-> nil]

(* the node renderers of the host for the other kinds *)
HeadingAttrs(node) ==
    IF node.idattr.ok
    THEN <<32, 105, 100, 61, 34>> \o EscapeHTML(node.idattr.val) \o <<34>>   \* id="..."
    ELSE <<>>

HostRender(node, entering) ==
    CASE node.kind = "Heading" ->
            IF entering THEN <<60, 104, 48 + node.Level>> \o HeadingAttrs(node) \o <<62>>
            ELSE <<60, 47, 104, 48 + node.Level, 62, 10>>
      [] node.kind = "Paragraph" ->
            IF entering THEN <<60, 112, 62>> ELSE <<60, 47, 112, 62, 10>>
      [] node.kind = "Blockquote" ->
            IF entering THEN <<60, 113, 62, 10>> ELSE <<60, 47, 113, 62, 10>>
      [] node.kind = "Text" -> IF entering THEN EscapeHTML(node.Segment) ELSE <<>>
      [] OTHER -> <<>>

(* the host starts its render traversal *)
Render ==
    /\ pc = "idle"
    /\ pc' = "render"
    /\ rstack' = <<[n |-> 1, enter |-> TRUE]>>
    /\ out' = <<>>
    /\ calls' = <<>>
    /\ hfrom' = [n \in 1..Len(tree) |-> 0]
    /\ inner' = [n \in 1..Len(tree) |-> NotClosed]
    /\ UNCHANGED <<tree, orig, transformer, renderer>>
    /\ UNCHANGED walkVars

(* the render dispatcher calls the function registered for the node's kind *)
Dispatch ==
    /\ pc = "render"
    /\ rstack # <<>>
    /\ LET f == Head(rstack)
           node == tree[f.n]
           res == IF node.kind = "Anchor" THEN RenderNode(renderer, node, f.enter)
                  ELSE [wrote |-> HostRender(node, f.enter), status |-> WalkContinue,
                        err |-> nil]
       IN  /\ out' = out \o res.wrote
           /\ calls' = IF node.kind = "Anchor"
                       THEN Append(calls, [n |-> f.n, entering |-> f.enter,
                                           wrote |-> res.wrote, status |-> res.status,
                                           err |-> res.err])
                       ELSE calls
           /\ hfrom' = IF node.kind = "Heading" /\ f.enter
                       THEN [hfrom EXCEPT ![f.n] = Len(out')] ELSE hfrom
           /\ inner' = IF node.kind = "Heading" /\ ~f.enter
                       THEN [inner EXCEPT ![f.n] = [done |-> TRUE,
                                                   bytes |-> SubSeq(out, hfrom[f.n] + 1, Len(out))]]
                       ELSE inner
           /\ rstack' = WalkNext(tree, rstack, res)
    /\ UNCHANGED <<pc, tree, orig, transformer, renderer>>
    /\ UNCHANGED walkVars

(* the render traversal returns *)
RenderReturn ==
    /\ pc = "render"
    /\ rstack = <<>>
    /\ pc' = "idle"
    /\ UNCHANGED <<tree, orig, transformer, renderer, rstack, out, calls, hfrom, inner>>
    /\ UNCHANGED walkVars

(* the caller replaces the Attributer of the Transformer after a pass *)
SetAttributer ==
    /\ pc = "idle"
    /\ passes >= 1
    /\ passes < MaxPasses
    /\ Effective(transformer.Attributer) = tr.Attributer
    /\ \E a \in Attributers :
        /\ Effective(a) # tr.Attributer
        /\ transformer' = [transformer EXCEPT !.Attributer = a]
    /\ UNCHANGED <<pc, tree, orig, renderer>>
    /\ UNCHANGED walkVars
    /\ UNCHANGED renderVars

Next ==
    \/ Extend
    \/ Install
    \/ Transform
    \/ Visit
    \/ TransformReturn
    \/ Render
    \/ Dispatch
    \/ RenderReturn
    \/ SetAttributer

Spec == Init /\ [][Next]_vars

-----------------------------------------------------------------------------
(* Properties *)
PassDone == pc # "walk" /\ passes >= 1
AnchorKids(t, h) == {i \in 1..Len(t[h].children) : IsAnchor(t, t[h].children[i])}
(* the anchors heading h gained since the current pass started *)
NewAnchors(h) ==
    {a \in Anchors(tree) : a > Len(pre) /\ \E i \in 1..Len(tree[h].children) : tree[h].children[i] = a}
HasBytesId(h) == tree[h].idattr.ok /\ tree[h].idattr.isBytes
TextFor(h) == AnchorText(tr.Texter, HeaderInfo(tree, h))
WithoutAnchors(t, s) == SelectSeq(s, LAMBDA c : ~IsAnchor(t, c))

\* C1 as stated: after a pass a heading has gained exactly one anchor when its
\* id is a non-empty byte sequence and the text policy gave non-empty text,
\* and none otherwise (an empty id included).
C1_AnchorIffNonEmptyId ==
    PassDone =>
        \A h \in Headings(tree) :
            Cardinality(NewAnchors(h)) =
                IF HasBytesId(h) /\ Len(tree[h].idattr.val) > 0 /\ Len(TextFor(h)) > 0
                THEN 1 ELSE 0

\* C1 amended: after a pass a heading has gained exactly one anchor when its
\* id attribute is present and a byte sequence (empty or not) and the text
\* policy gave non-empty text, and none otherwise.
C1_AnchorIffBytesId ==
    PassDone =>
        \A h \in Headings(tree) :
            Cardinality(NewAnchors(h)) =
                IF HasBytesId(h) /\ Len(TextFor(h)) > 0 THEN 1 ELSE 0

C1_Witness ==
    /\ PassDone
    /\ \E h \in Headings(tree) : HasBytesId(h) /\ tree[h].idattr.val = <<>>
                                   /\ Cardinality(NewAnchors(h)) = 1
    /\ \E h \in Headings(tree) : HasBytesId(h) /\ Len(TextFor(h)) = 0
                                   /\ NewAnchors(h) = {}

\* C2: an anchor inserted in this pass is the first child of its heading when
\* the position is Before and the last when it is After, the only child when
\* the heading had none, and the children the heading had follow or precede
\* it in their old order.
C2_Position ==
    \A h \in Headings(tree) : \A a \in NewAnchors(h) :
        LET old == pre[h].children
            new == tree[h].children
        IN  /\ Len(new) = Len(old) + 1
            /\ tr.Position = Before => new[1] = a /\ Tail(new) = old
            /\ tr.Position = After => new[Len(new)] = a /\ SubSeq(new, 1, Len(old)) = old
            /\ old = <<>> => new = <<a>>

C2_Witness ==
    /\ tr.Position = Before
    /\ \E h \in Headings(tree) : NewAnchors(h) # {} /\ Len(pre[h].children) >= 2
    /\ \E h \in Headings(tree) : NewAnchors(h) # {} /\ pre[h].children = <<>>

\* C3: after k passes a heading that gained an anchor in the first pass has
\* exactly k anchor children, and a heading that gained none has none.
FirstPass(h) == {i \in 1..Len(hist) : hist[i].h = h /\ hist[i].pass = 1}
C3_NotIdempotent ==
    PassDone =>
        \A h \in Headings(tree) :
            /\ Cardinality(FirstPass(h)) <= 1
            /\ Cardinality(AnchorKids(tree, h)) = passes * Cardinality(FirstPass(h))

C3_Witness ==
    /\ pc = "idle" /\ passes = 2
    /\ \E h \in Headings(tree) : Cardinality(AnchorKids(tree, h)) = 2
    /\ \E h \in Headings(tree) : AnchorKids(tree, h) = {}

\* C8: Visit always returns a nil error, so the walk visits every node outside
\* the headings' subtrees on enter and on exit; a heading without a byte
\* sequence id or with empty anchor text is left as it was.
C8_NeverFails ==
    /\ lastVisit.err = nil
    /\ walkErr = nil
    /\ PassDone =>
        /\ \A n \in 1..Len(pre) :
              (n = 1 \/ ~IsHeading(pre, pre[n].parent))
                  => <<n, TRUE>> \in visited /\ <<n, FALSE>> \in visited
        /\ \A h \in Headings(pre) :
              ~(HasBytesId(h) /\ Len(TextFor(h)) > 0) => tree[h] = pre[h]

C8_Witness ==
    /\ PassDone
    /\ \E h \in Headings(tree) : NewAnchors(h) # {} /\ \E g \in Headings(tree) :
            g < h /\ ~HasBytesId(g) /\ tree[g] = pre[g] /\ <<g, FALSE>> \in visited

\* C9: the pass only adds anchors under headings: without the anchors the tree
\* is the parser's tree, nodes that are no headings are as they were, the
\* walk enters the children of such nodes and never a child of a heading.
C9_Frame ==
    /\ Len(tree) >= Len(orig)
    /\ \A n \in 1..Len(tree) : n > Len(orig) <=> IsAnchor(tree, n)
    /\ \A n \in 1..Len(orig) :
          /\ [tree[n] EXCEPT !.children = WithoutAnchors(tree, @)] = orig[n]
          /\ ~IsHeading(orig, n) => tree[n] = orig[n]
    /\ \A v \in visited : v[1] = 1 \/ ~IsHeading(tree, tree[v[1]].parent)
    /\ PassDone =>
          \A h \in Headings(orig) : <<h, TRUE>> \in visited

C9_Witness ==
    /\ PassDone
    /\ \E h \in Headings(tree) :
          /\ tree[h].parent # 1
          /\ NewAnchors(h) # {}
          /\ \A i \in 1..Len(tree[h].children) : <<tree[h].children[i], TRUE>> \notin visited

\* C10: every anchor in the tree is a child of a heading, carries that
\* heading's id and level, and its value is the non-empty text the text
\* policy returned for that heading.
C10_AnchorFields ==
    \A a \in Anchors(tree) :
        LET h == tree[a].parent IN
        /\ h \in Headings(tree)
        /\ \E i \in 1..Len(tree[h].children) : tree[h].children[i] = a
        /\ tree[h].idattr.isBytes /\ tree[a].ID = tree[h].idattr.val
        /\ tree[a].Level = tree[h].Level
        /\ tree[a].Value = hist[a - Len(orig)].text
        /\ hist[a - Len(orig)].h = h
        /\ Len(tree[a].Value) > 0

C10_Witness ==
    /\ passes = 2
    /\ \E a \in Anchors(tree) : tree[a].ID = <<>> /\ tree[a].Level = 2
    /\ \E a \in Anchors(tree) : tree[a].ID # <<>> /\ tree[a].Level = 1
                                  /\ tree[a].Value = Pilcrow

CallsOf(a, e) == {i \in 1..Len(calls) : calls[i].n = a /\ calls[i].entering = e}
Wrote(a) == {i \in 1..Len(calls) : calls[i].n = a /\ calls[i].wrote # <<>>}
Suffix(s, k) == SubSeq(s, Len(s) - k + 1, Len(s))
DropSuffix(s, k) == SubSeq(s, 1, Len(s) - k)
(* what a call wrote, without the separating space *)
Elem(c) == IF renderer.Position = Before THEN DropSuffix(c.wrote, 1) ELSE Tail(c.wrote)
(* what the host renders for the children the parser gave heading h *)
Content(h) ==
    Concat([i \in 1..Len(orig[h].children) |-> EscapeHTML(orig[orig[h].children[i]].Segment)])

\* C4: of the enter call and the exit call on an anchor node exactly one
\* writes when the ID is non-empty (enter for Before, exit for After), the
\* other and both calls on an empty ID write nothing, and every call returns
\* WalkContinue and no error.
C4_OneCallWrites ==
    /\ \A i \in 1..Len(calls) :
          /\ calls[i].status = WalkContinue
          /\ calls[i].err = nil
          /\ calls[i].wrote # <<>> <=>
                /\ Len(tree[calls[i].n].ID) # 0
                /\ calls[i].entering = (renderer.Position = Before)
    /\ \A a \in Anchors(tree) :
          /\ Cardinality(CallsOf(a, TRUE)) <= 1
          /\ Cardinality(CallsOf(a, FALSE)) <= Cardinality(CallsOf(a, TRUE))
          /\ CallsOf(a, FALSE) # {} =>
                Cardinality(Wrote(a)) = IF Len(tree[a].ID) # 0 THEN 1 ELSE 0

C4_Witness ==
    /\ renderer.Position = After
    /\ \E a \in Anchors(tree) : /\ tree[a].ID # <<>>
                                /\ \E i \in CallsOf(a, FALSE) : calls[i].wrote # <<>>
                                /\ \E i \in CallsOf(a, TRUE) : calls[i].wrote = <<>>
    /\ \E a \in Anchors(tree) : /\ tree[a].ID = <<>>
                                /\ CallsOf(a, FALSE) # {}
                                /\ Wrote(a) = {}

(* a heading the one pass decorated, rendered with the position of the pass *)
Decorated(h) ==
    /\ passes = 1
    /\ inner[h].done
    /\ tr.Position = renderer.Position
    /\ Cardinality(AnchorKids(tree, h)) = 1
TheAnchor(h) == tree[h].children[CHOOSE i \in AnchorKids(tree, h) : TRUE]
AnchorFirst(h) ==
    LET b == inner[h].bytes
        e == AnchorElement(renderer, tree[TheAnchor(h)])
    IN  /\ b = e \o Space \o Content(h)
        /\ SubSeq(e, 1, 2) = OpenA /\ Suffix(e, 4) = CloseA
AnchorLast(h) ==
    LET b == inner[h].bytes
        e == AnchorElement(renderer, tree[TheAnchor(h)])
    IN  /\ b = Content(h) \o Space \o e
        /\ SubSeq(e, 1, 2) = OpenA /\ Suffix(e, 4) = CloseA

\* C5 as stated: inside every decorated heading the output is the anchor
\* element, one space, the heading's content for Before, and the content, one
\* space, the anchor element for After.
C5_SpaceFacesContent ==
    \A h \in Headings(tree) :
        Decorated(h) => IF renderer.Position = Before THEN AnchorFirst(h) ELSE AnchorLast(h)

\* C5 amended: that holds for every decorated heading whose id is not empty;
\* inside a decorated heading with an empty id the output is the heading's
\* content alone, without anchor element and without space.
C5_SpaceFacesContentNonEmptyId ==
    \A h \in Headings(tree) :
        Decorated(h) =>
            IF tree[h].idattr.val = <<>> THEN inner[h].bytes = Content(h)
            ELSE IF renderer.Position = Before THEN AnchorFirst(h) ELSE AnchorLast(h)

C5_Witness ==
    /\ renderer.Position = Before
    /\ \E h \in Headings(tree) :
          Decorated(h) /\ tree[h].idattr.val # <<>> /\ Len(orig[h].children) = 2

\* C6: in every anchor element written the href fragment is the escaped ID
\* whatever Unsafe is, the text is the Value when Unsafe and the escaped
\* Value otherwise, and the elements for Unsafe true and false differ in
\* the text alone.
C6_Escaping ==
    \A i \in 1..Len(calls) :
        calls[i].wrote # <<>> =>
            LET node == tree[calls[i].n]
                text == IF renderer.Unsafe THEN node.Value ELSE EscapeHTML(node.Value)
                rest == HrefOpen \o EscapeHTML(node.ID) \o HrefClose \o text \o CloseA
                eT == AnchorElement([renderer EXCEPT !.Unsafe = TRUE], node)
                eF == AnchorElement([renderer EXCEPT !.Unsafe = FALSE], node)
            IN  /\ Len(Elem(calls[i])) >= Len(rest)
                /\ Suffix(Elem(calls[i]), Len(rest)) = rest
                /\ DropSuffix(eT, Len(node.Value) + Len(CloseA))
                       = DropSuffix(eF, Len(EscapeHTML(node.Value)) + Len(CloseA))
                /\ Suffix(eT, Len(node.Value) + Len(CloseA)) = node.Value \o CloseA

C6_Witness ==
    /\ renderer.Unsafe
    /\ \E i \in 1..Len(calls) :
          /\ calls[i].wrote # <<>>
          /\ tree[calls[i].n].ID = <<60, 34>>
          /\ tree[calls[i].n].Value = <<60, 38>>

\* C7: the attributes of an anchor are the pairs the attribute policy
\* returned when the anchor was inserted, each once, and the element written
\* for it carries these pairs and no others, whatever the policy is by then.
PairsAt(a) == hist[a - Len(orig)].pairs
C7_AttributesFromInsertion ==
    /\ \A a \in Anchors(tree) :
          /\ {tree[a].attrs[i] : i \in 1..Len(tree[a].attrs)} = PairsAt(a)
          /\ Len(tree[a].attrs) = Cardinality(PairsAt(a))
    /\ \A i \in 1..Len(calls) :
          calls[i].wrote # <<>> =>
              \E ord \in RangeOrders(PairsAt(calls[i].n)) :
                  LET head == OpenA \o RenderAttributes(ord) \o HrefOpen IN
                  /\ Len(Elem(calls[i])) >= Len(head)
                  /\ SubSeq(Elem(calls[i]), 1, Len(head)) = head

C7_Witness ==
    \E i \in 1..Len(calls) :
        LET a == calls[i].n IN
        /\ calls[i].wrote # <<>>
        /\ Cardinality(PairsAt(a)) = 2
        /\ AnchorAttributes(Effective(transformer.Attributer),
                            [Level |-> tree[a].Level, ID |-> tree[a].ID]) # PairsAt(a)
====
